---- MODULE Spec2Model ----
(***************************************************************************)
(* Bring-up and request proxying of the llama.cpp runner.                  *)
(*                                                                         *)
(* Two entrypoint variants are modelled:                                   *)
(*   "llama_initializer" : llama_initializer.initialize_runner together    *)
(*                         with llama_client.send_completion_request       *)
(*   "rp_handler"        : rp_handler._initialize_runner (run at import)   *)
(*                         together with rp_handler.handler                *)
(*                                                                         *)
(* Python values are modelled as strings; None keeps a reserved spelling.  *)
(* An f-string is modelled as the tuple of its literal and interpolated    *)
(* parts.  A dict is a function from its keys.                             *)
(***************************************************************************)
EXTENDS Integers, Sequences, FiniteSets, TLC

VARIABLES
    variant,               \* which entrypoint module is running
    environ,               \* os.environ, fixed for the life of the process
    pc,                    \* position of the process
    llama_server_process,  \* global: handle of the launched server, or None
    is_server_ready,       \* global: readiness flag
    server_url,            \* global: base URL of the server
    hf_model_file_name,    \* global: model file name, or None
    api_token,             \* global: API token read at import, or None
    i,                     \* loop variable of the health polling loop
    log,                   \* bring-up events in the order they happened
    config_file,           \* content written to the server config file
    health_calls,          \* GET /health requests issued by the polling loop
    misses,                \* polls of the polling loop that were not a 200
    last_health,           \* headers and outcome of the latest health poll
    polled_after_ready,    \* a health request was issued after a 200
    exit_code,             \* exit status of the process, or None
    calls,                 \* number of completion calls made so far
    call,                  \* the latest completion call and what it did
    elapsed                \* whole seconds spent in the polling loop

vars == <<variant, environ, pc, llama_server_process, is_server_ready,
          server_url, hf_model_file_name, api_token, i, log, config_file,
          health_calls, misses, last_health, polled_after_ready, exit_code,
          calls, call, elapsed>>

globals == <<llama_server_process, is_server_ready, server_url,
             hf_model_file_name, api_token>>

world == <<log, config_file, health_calls, misses, last_health,
           polled_after_ready, exit_code>>

-----------------------------------------------------------------------------
(* Bounds *)

MaxCalls == 2

\* seconds up to which the clock of the polling loop is followed
TimeCap == 605

-----------------------------------------------------------------------------
(* Python values *)

PyNone == "<None>"
PyTrue == "<True>"
PyFalse == "<False>"

\* bool(v): None, False and the empty string are falsy
Truthy(v) == v \notin {PyNone, PyFalse, ""}

\* str(v) as an f-string interpolates it
Fmt(v) ==
    CASE v = PyNone  -> "None"
      [] v = PyTrue  -> "True"
      [] v = PyFalse -> "False"
      [] OTHER       -> v

\* os.environ.get(key): None when the variable is unset
EnvGet(key) == environ[key]

-----------------------------------------------------------------------------
(* Module-level constants *)

Variants == {"llama_initializer", "rp_handler"}

server_port == "9095"
server_host == "0.0.0.0"
ServerUrl == "http://localhost:" \o server_port

\* range(600) in llama_initializer, range(300) in rp_handler
PollBoundInitializer == 600
PollBoundHandler == 300
PollBound(v) == IF v = "llama_initializer" THEN PollBoundInitializer
                ELSE PollBoundHandler

RequiredKeys == {"HUGGING_FACE_TOKEN", "HF_MODEL_REPO", "HF_MODEL_FILE"}
EnvKeys == RequiredKeys \cup {"API_TOKEN", "N_CTX"}

\* the values an environment variable takes in the model: unset, empty, set
\* (N_CTX: unset, or set to text that int() rejects)
EnvValues(key) ==
    CASE key = "HUGGING_FACE_TOKEN" -> {PyNone, "", "hf_secret"}
      [] key = "HF_MODEL_REPO"      -> {PyNone, "", "org/repo"}
      [] key = "HF_MODEL_FILE"      -> {PyNone, "", "model.gguf"}
      [] key = "API_TOKEN"          -> {PyNone, "", "s3cret"}
      [] key = "N_CTX"              -> {PyNone, "abc"}

Environments == {e \in [EnvKeys -> UNION {EnvValues(k) : k \in EnvKeys}] :
                    \A k \in EnvKeys : e[k] \in EnvValues(k)}

\* exit status of a process that has not exited
Running == -1

EmptyDict == <<>>

\* os.environ.get(key, default)
EnvGetDefault(key, default) == IF environ[key] = PyNone THEN default
                               ELSE environ[key]

\* int(text): the decimal texts of the model, anything else is a ValueError
IsIntText(text) == text \in {"-1", "8", "512", "9095", "40000"}

-----------------------------------------------------------------------------
(* JSON values, json.dumps and response.json() *)

JNull == [t |-> "null"]
JStr(s) == [t |-> "str", s |-> s]
JNum(s) == [t |-> "num", s |-> s]
JList(items) == [t |-> "list", items |-> items]
JObj(keys, vals) == [t |-> "obj", keys |-> keys, vals |-> vals]

\* bool(value) of a decoded JSON value
JTruthy(v) ==
    CASE v.t = "null" -> FALSE
      [] v.t = "str"  -> v.s # ""
      [] v.t = "num"  -> v.s # "0"
      [] v.t = "list" -> Len(v.items) > 0
      [] v.t = "obj"  -> Len(v.keys) > 0

HasKey(v, key) == \E n \in 1..Len(v.keys) : v.keys[n] = key
ValueAt(v, key) == v.vals[CHOOSE n \in 1..Len(v.keys) : v.keys[n] = key]

RECURSIVE Dumps(_)
RECURSIVE DumpItems(_, _)
RECURSIVE DumpMembers(_, _, _)

\* the elements of a list from index n on, joined with ", "
DumpItems(items, n) ==
    IF n > Len(items) THEN ""
    ELSE Dumps(items[n])
         \o (IF n < Len(items) THEN ", " ELSE "")
         \o DumpItems(items, n + 1)

\* the members of an object from index n on, as "key": value joined with ", "
DumpMembers(keys, vals, n) ==
    IF n > Len(keys) THEN ""
    ELSE "\"" \o keys[n] \o "\": " \o Dumps(vals[n])
         \o (IF n < Len(keys) THEN ", " ELSE "")
         \o DumpMembers(keys, vals, n + 1)

\* json.dumps(value) with the default separators
Dumps(v) ==
    CASE v.t = "null" -> "null"
      [] v.t = "str"  -> "\"" \o v.s \o "\""
      [] v.t = "num"  -> v.s
      [] v.t = "list" -> "[" \o DumpItems(v.items, 1) \o "]"
      [] v.t = "obj"  -> "{" \o DumpMembers(v.keys, v.vals, 1) \o "}"

\* response bodies of the model
BodyNotJson == "<html>502 Bad Gateway</html>"
BodyDeep == "[[[[[[...nested past the recursion limit...]]]]]]"
BodyNull == "null"
BodyEmptyList == "[]"
BodyList == "[1]"
BodyString == "\"oops\""
BodyEmptyObject == "{}"
BodyDetail == "{\"detail\":\"oom\"}"
BodyNoChoice == "{\"choices\":[]}"
BodyNoMessage == "{\"choices\":[{}]}"
BodyNoContent == "{\"choices\":[{\"message\":{}}]}"
BodyHello == "{\"choices\":[{\"message\":{\"content\":\"hello\"}}]}"
BodyTwo == "{\"choices\":[{\"message\":{\"content\":\"first\"}},{\"message\":{\"content\":\"second\"}}]}"

Bodies == {BodyNotJson, BodyDeep, BodyNull, BodyEmptyList, BodyList,
           BodyString, BodyEmptyObject, BodyDetail, BodyNoChoice,
           BodyNoMessage, BodyNoContent, BodyHello, BodyTwo}

Choice(content) ==
    JObj(<<"message">>, <<JObj(<<"content">>, <<JStr(content)>>)>>)

\* json.loads(text): the decoded value, or the exception it raises
Loads(text) ==
    CASE text = BodyNotJson     -> [exc |-> "JSONDecodeError"]
      [] text = BodyDeep        -> [exc |-> "RecursionError"]
      [] text = BodyNull        -> [exc |-> "", v |-> JNull]
      [] text = BodyEmptyList   -> [exc |-> "", v |-> JList(<<>>)]
      [] text = BodyList        -> [exc |-> "", v |-> JList(<<JNum("1")>>)]
      [] text = BodyString      -> [exc |-> "", v |-> JStr("oops")]
      [] text = BodyEmptyObject -> [exc |-> "", v |-> JObj(<<>>, <<>>)]
      [] text = BodyDetail      ->
            [exc |-> "", v |-> JObj(<<"detail">>, <<JStr("oom")>>)]
      [] text = BodyNoChoice    ->
            [exc |-> "", v |-> JObj(<<"choices">>, <<JList(<<>>)>>)]
      [] text = BodyNoMessage   ->
            [exc |-> "",
             v |-> JObj(<<"choices">>, <<JList(<<JObj(<<>>, <<>>)>>)>>)]
      [] text = BodyNoContent   ->
            [exc |-> "",
             v |-> JObj(<<"choices">>,
                        <<JList(<<JObj(<<"message">>,
                                       <<JObj(<<>>, <<>>)>>)>>)>>)]
      [] text = BodyHello       ->
            [exc |-> "",
             v |-> JObj(<<"choices">>, <<JList(<<Choice("hello")>>)>>)]
      [] text = BodyTwo         ->
            [exc |-> "",
             v |-> JObj(<<"choices">>,
                        <<JList(<<Choice("first"), Choice("second")>>)>>)]

\* value[key] on a decoded value: KeyError if an object lacks the key,
\* TypeError if the value is not an object
Subscript(v, key) ==
    IF v.t # "obj" THEN [exc |-> "TypeError"]
    ELSE IF ~HasKey(v, key) THEN [exc |-> "KeyError"]
    ELSE [exc |-> "", v |-> ValueAt(v, key)]

\* variant of value[0] that takes the last element of a list
First_Last(v) ==
    CASE v.t = "list" -> IF Len(v.items) = 0 THEN [exc |-> "IndexError"]
                         ELSE [exc |-> "", v |-> v.items[Len(v.items)]]
      [] v.t = "obj"  -> [exc |-> "KeyError"]
      [] OTHER        -> [exc |-> "TypeError"]

\* value[0]: the first element of a list, KeyError on an object, TypeError
\* on null or a number (a string does not occur here in the model's bodies)
First(v) ==
    CASE v.t = "list" -> IF Len(v.items) = 0 THEN [exc |-> "IndexError"]
                         ELSE [exc |-> "", v |-> v.items[1]]
      [] v.t = "obj"  -> [exc |-> "KeyError"]
      [] OTHER        -> [exc |-> "TypeError"]

\* value.get(key): None if an object lacks the key, AttributeError if the
\* value is not an object
DictGet(v, key) ==
    IF v.t # "obj" THEN [exc |-> "AttributeError"]
    ELSE IF ~HasKey(v, key) THEN [exc |-> "", v |-> JNull]
    ELSE [exc |-> "", v |-> ValueAt(v, key)]

-----------------------------------------------------------------------------
(* Bring-up: initialize_runner / _initialize_runner *)

NoHealth == [headers |-> EmptyDict, outcome |-> "none"]

NoCall == [fn |-> "none", job |-> EmptyDict, ready |-> FALSE,
           upstream |-> EmptyDict, requests |-> <<>>,
           outcome |-> "none", ret |-> EmptyDict, exc |-> ""]

Init ==
    /\ variant \in Variants
    /\ environ \in Environments
    /\ pc = "loaded"
    /\ llama_server_process = PyNone
    /\ is_server_ready = FALSE
    /\ server_url = ServerUrl
    /\ hf_model_file_name = PyNone
    /\ api_token = environ["API_TOKEN"]
    /\ i = 0
    /\ log = <<>>
    /\ config_file = EmptyDict
    /\ health_calls = 0
    /\ misses = 0
    /\ last_health = NoHealth
    /\ polled_after_ready = FALSE
    /\ exit_code = Running
    /\ calls = 0
    /\ call = NoCall
    /\ elapsed = 0

\* sys.exit(1), or an exception nobody catches: the process ends, status 1
Exit(events) ==
    /\ pc' = "exited"
    /\ exit_code' = 1
    /\ log' = log \o events \o <<"exit">>

\* variant of the checks that tests the model file against None only
MissingRequired_NoneOnly ==
    \/ ~Truthy(EnvGet("HUGGING_FACE_TOKEN"))
    \/ ~Truthy(EnvGet("HF_MODEL_REPO"))
    \/ EnvGet("HF_MODEL_FILE") = PyNone

\* the three checks of the required values, in order
MissingRequired ==
    \/ ~Truthy(EnvGet("HUGGING_FACE_TOKEN"))
    \/ ~Truthy(EnvGet("HF_MODEL_REPO"))
    \/ ~Truthy(EnvGet("HF_MODEL_FILE"))

\* entry of the initializer up to the required-value checks
ReadConfig ==
    /\ pc = "loaded"
    /\ hf_model_file_name' = EnvGet("HF_MODEL_FILE")
    /\ IF MissingRequired
       THEN Exit(<<>>)
       ELSE /\ pc' = "makedirs"
            /\ UNCHANGED <<log, exit_code>>
    /\ UNCHANGED <<variant, environ, llama_server_process, is_server_ready,
                   server_url, api_token, i, config_file, health_calls,
                   misses, last_health, polled_after_ready, calls, call,
                   elapsed>>

\* os.makedirs("models", exist_ok=True); a failure is not caught
MakeDirs ==
    /\ pc = "makedirs"
    /\ \E ok \in BOOLEAN :
         IF ok THEN /\ pc' = "setup"
                    /\ UNCHANGED <<log, exit_code>>
               ELSE Exit(<<>>)
    /\ UNCHANGED <<variant, environ, globals, i, config_file, health_calls,
                   misses, last_health, polled_after_ready, calls, call,
                   elapsed>>

SetupCommands == <<"pip install llama-cpp-python[server]",
                   "pip install -U huggingface_hub",
                   "hf auth login",
                   "hf download">>

\* variant of the installation block that goes on with the later commands
\* after a failure and exits at the end
RunSetup_GoesOn ==
    /\ pc = "setup"
    /\ \E failing \in 0..Len(SetupCommands) :
         IF failing = 0
         THEN /\ pc' = "config"
              /\ log' = log \o SetupCommands
              /\ UNCHANGED exit_code
         ELSE Exit(SubSeq(SetupCommands, 1, failing) \o <<"setup_failed">>
                   \o SubSeq(SetupCommands, failing + 1,
                             Len(SetupCommands)))
    /\ UNCHANGED <<variant, environ, globals, i, config_file, health_calls,
                   misses, last_health, polled_after_ready, calls, call,
                   elapsed>>

\* _execute_command: runs the command; a failing command raises.
\* The installation try block: the commands run in order until one raises
\* (failing = 0: none fails); the except clause reports the failure and
\* exits.
RunSetup ==
    /\ pc = "setup"
    /\ \E failing \in 0..Len(SetupCommands) :
         IF failing = 0
         THEN /\ pc' = "config"
              /\ log' = log \o SetupCommands
              /\ UNCHANGED exit_code
         ELSE Exit(SubSeq(SetupCommands, 1, failing) \o <<"setup_failed">>)
    /\ UNCHANGED <<variant, environ, globals, i, config_file, health_calls,
                   misses, last_health, polled_after_ready, calls, call,
                   elapsed>>

\* config_content as built by the initializer ("api_key" only if a token
\* is set; the model parameters other than n_ctx keep their defaults)
ConfigContent ==
    LET base == [host |-> server_host,
                 port |-> server_port,
                 model |-> "models/" \o Fmt(hf_model_file_name),
                 n_ctx |-> EnvGetDefault("N_CTX", "40000")]
    IN IF Truthy(api_token) THEN base @@ [api_key |-> api_token] ELSE base

\* model parameters, config_content and the write of the config file;
\* int() of a malformed parameter raises and nobody catches it,
\* a failing write (IOError) exits
WriteConfig ==
    /\ pc = "config"
    /\ IF ~IsIntText(EnvGetDefault("N_CTX", "40000"))
       THEN Exit(<<>>) /\ UNCHANGED config_file
       ELSE \E written \in BOOLEAN :
              IF written
              THEN /\ config_file' = ConfigContent
                   /\ log' = Append(log, "write_config")
                   /\ pc' = "launch"
                   /\ UNCHANGED exit_code
              ELSE Exit(<<>>) /\ UNCHANGED config_file
    /\ UNCHANGED <<variant, environ, globals, i, health_calls, misses,
                   last_health, polled_after_ready, calls, call,
                   elapsed>>

\* subprocess.Popen of llama_cpp.server; a failure to start exits
Launch ==
    /\ pc = "launch"
    /\ \E started \in BOOLEAN :
         IF started
         THEN /\ llama_server_process' = "Popen"
              /\ log' = Append(log, "popen")
              /\ pc' = "poll"
              /\ i' = 0
              /\ UNCHANGED exit_code
         ELSE Exit(<<>>) /\ UNCHANGED <<llama_server_process, i>>
    /\ UNCHANGED <<variant, environ, is_server_ready, server_url,
                   hf_model_file_name, api_token, config_file, health_calls,
                   misses, last_health, polled_after_ready, calls, call,
                   elapsed>>

\* what one GET /health can end in: a 200, another status, a refused
\* connection, any other exception
HealthOutcomes == {"200", "503", "ConnectionError", "Exception"}

\* headers of the health request
HealthHeaders ==
    IF Truthy(api_token)
    THEN [Authorization |-> <<"Bearer ", Fmt(api_token)>>]
    ELSE EmptyDict

\* variant of the loop body without the break on a 200
Poll_NoBreak ==
    /\ pc = "poll"
    /\ i < PollBound(variant)
    /\ \E outcome \in HealthOutcomes :
         /\ last_health' = [headers |-> HealthHeaders, outcome |-> outcome]
         /\ health_calls' = health_calls + 1
         /\ polled_after_ready' =
                (polled_after_ready \/ last_health.outcome = "200")
         /\ log' = IF health_calls = 0 THEN Append(log, "health") ELSE log
         /\ is_server_ready' = (is_server_ready \/ outcome = "200")
         /\ misses' = IF outcome = "200" THEN misses ELSE misses + 1
         /\ i' = i + 1
         /\ pc' = IF i + 1 < PollBound(variant) THEN "poll" ELSE "polled"
    /\ UNCHANGED <<variant, environ, llama_server_process, server_url,
                   hf_model_file_name, api_token, config_file, exit_code,
                   calls, call>>

\* variant of the loop body in which an exception other than a refused
\* connection ends the bring-up
Poll_FatalError ==
    /\ pc = "poll"
    /\ i < PollBound(variant)
    /\ \E outcome \in HealthOutcomes :
         /\ last_health' = [headers |-> HealthHeaders, outcome |-> outcome]
         /\ health_calls' = health_calls + 1
         /\ polled_after_ready' =
                (polled_after_ready \/ last_health.outcome = "200")
         /\ IF outcome = "200"
            THEN /\ is_server_ready' = TRUE
                 /\ pc' = "polled"
                 /\ log' = IF health_calls = 0 THEN Append(log, "health")
                           ELSE log
                 /\ UNCHANGED <<i, misses, exit_code>>
            ELSE IF outcome = "Exception"
            THEN /\ pc' = "exited"
                 /\ exit_code' = 1
                 /\ log' = (IF health_calls = 0 THEN Append(log, "health")
                            ELSE log) \o <<"kill", "exit">>
                 /\ misses' = misses + 1
                 /\ UNCHANGED <<i, is_server_ready>>
            ELSE /\ misses' = misses + 1
                 /\ i' = i + 1
                 /\ pc' = IF i + 1 < PollBound(variant) THEN "poll"
                          ELSE "polled"
                 /\ log' = IF health_calls = 0 THEN Append(log, "health")
                           ELSE log
                 /\ UNCHANGED <<is_server_ready, exit_code>>
    /\ UNCHANGED <<variant, environ, llama_server_process, server_url,
                   hf_model_file_name, api_token, config_file, calls, call>>

\* one iteration of the polling loop
Poll ==
    /\ pc = "poll"
    /\ i < PollBound(variant)
    /\ \E outcome \in HealthOutcomes :
         /\ last_health' = [headers |-> HealthHeaders, outcome |-> outcome]
         /\ health_calls' = health_calls + 1
         /\ polled_after_ready' =
                (polled_after_ready \/ last_health.outcome = "200")
         /\ log' = IF health_calls = 0 THEN Append(log, "health") ELSE log
         /\ IF outcome = "200"
            THEN /\ is_server_ready' = TRUE
                 /\ pc' = "polled"
                 /\ UNCHANGED <<i, misses>>
            ELSE /\ misses' = misses + 1
                 /\ i' = i + 1
                 /\ pc' = IF i + 1 < PollBound(variant) THEN "poll"
                          ELSE "polled"
                 /\ UNCHANGED is_server_ready
    /\ UNCHANGED <<variant, environ, llama_server_process, server_url,
                   hf_model_file_name, api_token, config_file, exit_code,
                   calls, call>>

\* variant of the give-up path that exits without killing the server
Finish_NoKill ==
    /\ pc = "polled"
    /\ IF ~is_server_ready
       THEN /\ Exit(<<>>)
            /\ UNCHANGED <<i, health_calls, misses>>
       ELSE /\ pc' = "returned"
            /\ i' = 0
            /\ health_calls' = 0
            /\ misses' = 0
            /\ UNCHANGED <<log, exit_code>>
    /\ UNCHANGED <<variant, environ, globals, config_file, last_health,
                   polled_after_ready, calls, call,
                   elapsed>>

\* variant of the step after the loop that returns whatever the flag says
Finish_ReturnsUnready ==
    /\ pc = "polled"
    /\ pc' = "returned"
    /\ i' = 0
    /\ health_calls' = 0
    /\ misses' = 0
    /\ UNCHANGED <<log, exit_code>>
    /\ UNCHANGED <<variant, environ, globals, config_file, last_health,
                   polled_after_ready, calls, call,
                   elapsed>>

\* after the loop: give up (kill, exit) unless the server is ready.
\* On return the loop's variable and counters go out of use.
Finish ==
    /\ pc = "polled"
    /\ IF ~is_server_ready
       THEN /\ Exit(IF llama_server_process # PyNone THEN <<"kill">>
                    ELSE <<>>)
            /\ UNCHANGED <<i, health_calls, misses>>
       ELSE /\ pc' = "returned"
            /\ i' = 0
            /\ health_calls' = 0
            /\ misses' = 0
            /\ UNCHANGED <<log, exit_code>>
    /\ UNCHANGED <<variant, environ, globals, config_file, last_health,
                   polled_after_ready, calls, call,
                   elapsed>>

\* a poll of the loop with the clock left out of account
PollUntimed == Poll /\ UNCHANGED elapsed

Initialize == ReadConfig \/ MakeDirs \/ RunSetup \/ WriteConfig \/ Launch
              \/ PollUntimed \/ Finish

\* requests.get(..., timeout=5) and time.sleep(1)
RequestTimeout == 5
SleepSeconds == 1

\* the clock is followed up to TimeCap seconds and stays there afterwards
Clock(seconds) == IF seconds > TimeCap THEN TimeCap ELSE seconds

\* the time one iteration takes: the request answers or fails within its
\* timeout (in whole seconds), and the loop sleeps unless it breaks
Tick ==
    \E took \in 0..RequestTimeout :
        elapsed' = Clock(elapsed + took
                         + IF last_health'.outcome = "200" THEN 0
                           ELSE SleepSeconds)

\* a poll of the loop with the time it takes
PollTimed == Poll /\ Tick

\* llama_initializer.initialize_runner called again after it has returned
\* (rp_handler runs _initialize_runner once, at import).  The observations
\* of the bring-up and of the latest call start afresh with the new run.
Reinvoke ==
    /\ variant = "llama_initializer"
    /\ pc = "returned"
    /\ pc' = "loaded"
    /\ log' = <<>>
    /\ last_health' = NoHealth
    /\ polled_after_ready' = FALSE
    /\ call' = NoCall
    /\ UNCHANGED <<variant, environ, globals, i, config_file, health_calls,
                   misses, exit_code, calls, elapsed>>

-----------------------------------------------------------------------------
(* Completion: llama_client.send_completion_request and rp_handler.handler *)

\* a key the job input does not have, an argument the caller did not pass
Absent == "<absent>"

Prompts == {Absent, PyNone, "", "hi"}

\* max_tokens and temperature: both left out, or both given
Params == {[max_tokens |-> Absent, temperature |-> Absent],
           [max_tokens |-> "64", temperature |-> "0.2"]}

\* jobs handed to handler: without "input", or with an input mapping
HandlerJobs ==
    {[has_input |-> FALSE, prompt |-> Absent, max_tokens |-> Absent,
      temperature |-> Absent]}
    \cup {[has_input |-> TRUE, prompt |-> p, max_tokens |-> q.max_tokens,
           temperature |-> q.temperature] : p \in Prompts, q \in Params}

\* argument lists of send_completion_request (prompt is positional)
ClientJobs ==
    {[has_input |-> TRUE, prompt |-> p, max_tokens |-> q.max_tokens,
      temperature |-> q.temperature] :
        p \in Prompts \ {Absent}, q \in Params}

\* dict.get(key, default), and a parameter with a default value
GetOr(job, key, default) == IF job[key] = Absent THEN default ELSE job[key]

Statuses == {200, 300, 404, 500}

NoUpstream == [kind |-> "none", exc |-> "", status |-> 0, text |-> "",
               requests_json_error |-> TRUE]

\* what the upstream does with one POST: the transport fails, or a response
\* with a status and a body arrives.  requests_json_error: response.json()
\* reports undecodable text as requests' own JSONDecodeError, which is a
\* RequestException (requests >= 2.27), or as the plain decoder error
Upstreams ==
    {[kind |-> "transport", exc |-> e, status |-> 0, text |-> "",
      requests_json_error |-> TRUE] : e \in {"ConnectionError", "Timeout"}}
    \cup {[kind |-> "response", exc |-> "", status |-> st, text |-> b,
           requests_json_error |-> TRUE] : st \in Statuses, b \in Bodies}
    \cup {[kind |-> "response", exc |-> "", status |-> st,
           text |-> BodyNotJson, requests_json_error |-> FALSE] :
             st \in Statuses}

Return(requests, ret) ==
    [requests |-> requests, outcome |-> "return", ret |-> ret, exc |-> ""]
Raise(requests, exc) ==
    [requests |-> requests, outcome |-> "raise", ret |-> EmptyDict,
     exc |-> exc]

FailedToGet == "Failed to get response from LLM server: "
UnexpectedFormat == "Unexpected response format from LLM server: "
UnexpectedError == "An unexpected error occurred: "

\* response.raise_for_status(): HTTPError for a 4xx or 5xx status
RaisesForStatus(status) == 400 <= status /\ status < 600

\* the body of the try block once result = response.json() is decoded
Extract(reqs, result) ==
    IF ~JTruthy(result)
    THEN Return(reqs, [error |-> <<UnexpectedFormat, Dumps(result)>>])
    ELSE LET choices == DictGet(result, "choices") IN
         IF choices.exc # ""
         THEN Return(reqs, [error |-> <<UnexpectedError, choices.exc>>])
         ELSE IF ~JTruthy(choices.v)
         THEN Return(reqs, [error |-> <<UnexpectedFormat, Dumps(result)>>])
         ELSE LET first == First(choices.v) IN
              IF first.exc # ""
              THEN Return(reqs, [error |-> <<UnexpectedError, first.exc>>])
              ELSE LET message == Subscript(first.v, "message") IN
                   IF message.exc # ""
                   THEN Return(reqs,
                               [error |-> <<UnexpectedError, message.exc>>])
                   ELSE LET content == Subscript(message.v, "content") IN
                        IF content.exc # ""
                        THEN Return(reqs, [error |->
                                        <<UnexpectedError, content.exc>>])
                        ELSE Return(reqs, [result |-> content.v])

\* variant of the except clause that always attaches the body text
HandleHttpError_WithText(reqs, up) ==
    LET error_details == Loads(up.text) IN
    IF error_details.exc = ""
    THEN Return(reqs, [error |-> <<FailedToGet, "HTTPError">>,
                       details |-> error_details.v,
                       response_text |-> up.text])
    ELSE IF error_details.exc = "JSONDecodeError"
    THEN Return(reqs, [error |-> <<FailedToGet, "HTTPError">>,
                       response_text |-> up.text])
    ELSE Raise(reqs, error_details.exc)

\* except requests.exceptions.RequestException for an HTTPError, which
\* carries the response: an exception raised in here leaves the function
HandleHttpError(reqs, up) ==
    LET error_details == Loads(up.text) IN
    IF error_details.exc = ""
    THEN Return(reqs, [error |-> <<FailedToGet, "HTTPError">>,
                       details |-> error_details.v])
    ELSE IF error_details.exc = "JSONDecodeError"
    THEN Return(reqs, [error |-> <<FailedToGet, "HTTPError">>,
                       response_text |-> up.text])
    ELSE Raise(reqs, error_details.exc)

\* the try block around requests.post and its except clauses
\* (the same text in send_completion_request and in handler)
TryPost(request, up) ==
    LET reqs == <<request>> IN
    IF up.kind = "transport"
    THEN Return(reqs, [error |-> <<FailedToGet, up.exc>>])
    ELSE IF RaisesForStatus(up.status)
    THEN HandleHttpError(reqs, up)
    ELSE LET decoded == Loads(up.text) IN
         IF decoded.exc = ""
         THEN Extract(reqs, decoded.v)
         ELSE IF decoded.exc = "JSONDecodeError" /\ up.requests_json_error
         THEN Return(reqs, [error |-> <<FailedToGet, decoded.exc>>])
         ELSE Return(reqs, [error |-> <<UnexpectedError, decoded.exc>>])

Payload(prompt, model, max_tokens, temperature) ==
    [messages |-> <<[role |-> "user", content |-> prompt]>>,
     model |-> model,
     max_tokens |-> max_tokens,
     temperature |-> temperature]

PostRequest(url, payload, headers) ==
    [method |-> "POST", url |-> url \o "/v1/chat/completions",
     json |-> payload, headers |-> headers, timeout |-> "120"]

\* headers = {"Content-Type": "application/json"}
ContentType == "Content-Type" :> "application/json"

\* llama_initializer.get_server_status()
get_server_status ==
    [is_ready |-> is_server_ready,
     server_url |-> server_url,
     model_file |-> hf_model_file_name,
     api_token |-> IF api_token # PyNone THEN PyTrue ELSE PyFalse]

NotReady == [error |-> <<"Llama.cpp server is not ready. Initialization failed.">>]

\* variant of send_completion_request without the readiness check
send_completion_request_NoReadyCheck(job, up) ==
    LET server_status == get_server_status
        headers == IF Truthy(server_status.api_token)
                   THEN ContentType @@
                        [Authorization |->
                            <<"Bearer ", Fmt(server_status.api_token)>>]
                   ELSE ContentType
        payload == Payload(job.prompt, server_status.model_file,
                           GetOr(job, "max_tokens", "500"),
                           GetOr(job, "temperature", "0.7"))
    IN IF ~Truthy(job.prompt)
       THEN Return(<<>>, [error |-> <<"No prompt provided.">>])
       ELSE TryPost(PostRequest(server_status.server_url, payload, headers),
                    up)

\* llama_client.send_completion_request(prompt, max_tokens, temperature)
send_completion_request(job, up) ==
    LET server_status == get_server_status
        headers == IF Truthy(server_status.api_token)
                   THEN ContentType @@
                        [Authorization |->
                            <<"Bearer ", Fmt(server_status.api_token)>>]
                   ELSE ContentType
        payload == Payload(job.prompt, server_status.model_file,
                           GetOr(job, "max_tokens", "500"),
                           GetOr(job, "temperature", "0.7"))
    IN IF ~server_status.is_ready THEN Return(<<>>, NotReady)
       ELSE IF ~Truthy(job.prompt)
       THEN Return(<<>>, [error |-> <<"No prompt provided.">>])
       ELSE TryPost(PostRequest(server_status.server_url, payload, headers),
                    up)

\* variant of handler that only rejects an absent prompt, not an empty one
handler_NoneOnly(job, up) ==
    LET prompt == GetOr(job, "prompt", PyNone)
        headers == IF Truthy(api_token)
                   THEN ContentType @@
                        [Authorization |-> <<"Bearer ", Fmt(api_token)>>]
                   ELSE ContentType
        payload == Payload(prompt, hf_model_file_name,
                           GetOr(job, "max_tokens", "500"),
                           GetOr(job, "temperature", "0.7"))
    IN IF ~is_server_ready THEN Return(<<>>, NotReady)
       ELSE IF ~job.has_input THEN Raise(<<>>, "KeyError")
       ELSE IF prompt = PyNone
       THEN Return(<<>>, [error |-> <<"No 'prompt' found in job input.">>])
       ELSE TryPost(PostRequest(server_url, payload, headers), up)

\* rp_handler.handler(job)
handler(job, up) ==
    LET prompt == GetOr(job, "prompt", PyNone)
        headers == IF Truthy(api_token)
                   THEN ContentType @@
                        [Authorization |-> <<"Bearer ", Fmt(api_token)>>]
                   ELSE ContentType
        payload == Payload(prompt, hf_model_file_name,
                           GetOr(job, "max_tokens", "500"),
                           GetOr(job, "temperature", "0.7"))
    IN IF ~is_server_ready THEN Return(<<>>, NotReady)
       ELSE IF ~job.has_input THEN Raise(<<>>, "KeyError")
       ELSE IF ~Truthy(prompt)
       THEN Return(<<>>, [error |-> <<"No 'prompt' found in job input.">>])
       ELSE TryPost(PostRequest(server_url, payload, headers), up)

\* the completion function of the running entrypoint
CompletionFn == IF variant = "rp_handler" THEN "handler"
                ELSE "send_completion_request"
Jobs == IF variant = "rp_handler" THEN HandlerJobs ELSE ClientJobs
Run(job, up) == IF variant = "rp_handler" THEN handler(job, up)
                ELSE send_completion_request(job, up)

\* variant in which the worker of rp_handler takes jobs from import on
CanComplete_AtImport == pc \in {"loaded", "returned"}

\* when a completion call can be made: rp_handler starts the worker after
\* _initialize_runner has returned; send_completion_request is importable
\* before initialize_runner was called and after it has returned
CanComplete ==
    IF variant = "rp_handler" THEN pc = "returned"
    ELSE pc \in {"loaded", "returned"}

\* whether the call gets as far as the POST (whatever the upstream does)
IssuesPost(job) ==
    LET refused == [kind |-> "transport", exc |-> "ConnectionError",
                    status |-> 0, text |-> "", requests_json_error |-> TRUE]
    IN Len(Run(job, refused).requests) > 0

\* variant of a completion call that clears the readiness flag when the
\* transport fails
Complete_ClearsReady ==
    /\ CanComplete
    /\ calls < MaxCalls
    /\ \E job \in Jobs :
         \E up \in IF IssuesPost(job) THEN Upstreams ELSE {NoUpstream} :
             LET r == Run(job, up)
             IN /\ call' = [fn |-> CompletionFn, job |-> job,
                            ready |-> is_server_ready, upstream |-> up,
                            requests |-> r.requests, outcome |-> r.outcome,
                            ret |-> r.ret, exc |-> r.exc]
                /\ is_server_ready' =
                      (is_server_ready /\ up.kind # "transport")
    /\ calls' = calls + 1
    /\ UNCHANGED <<variant, environ, pc, llama_server_process, server_url,
                   hf_model_file_name, api_token, i, world, elapsed>>

\* one completion call; the upstream is only consulted if a POST is issued
Complete ==
    /\ CanComplete
    /\ calls < MaxCalls
    /\ \E job \in Jobs :
         \E up \in IF IssuesPost(job) THEN Upstreams ELSE {NoUpstream} :
             LET r == Run(job, up)
             IN call' = [fn |-> CompletionFn, job |-> job,
                         ready |-> is_server_ready, upstream |-> up,
                         requests |-> r.requests, outcome |-> r.outcome,
                         ret |-> r.ret, exc |-> r.exc]
    /\ calls' = calls + 1
    /\ UNCHANGED <<variant, environ, pc, globals, i, world, elapsed>>

Next == Initialize \/ Complete

Spec == Init /\ [][Next]_vars

\* any sequence of initializer runs and completion calls in one process
NextReinit == Initialize \/ Complete \/ Reinvoke

SpecReinit == Init /\ [][NextReinit]_vars

\* initializer runs alone; a run that has started keeps taking steps
NextRuns == Initialize \/ Reinvoke

SpecRuns == Init /\ [][NextRuns]_vars /\ WF_vars(Initialize)

\* the bring-up of llama_initializer with the clock of its polling loop
\* (the API token has no part in the timing and is left unset)
InitTimed ==
    /\ Init
    /\ variant = "llama_initializer"
    /\ environ["API_TOKEN"] = PyNone

NextTimed == ReadConfig \/ MakeDirs \/ RunSetup \/ WriteConfig \/ Launch
             \/ PollTimed \/ Finish

SpecTimed == InitTimed /\ [][NextTimed]_vars

-----------------------------------------------------------------------------
(* Properties *)

InLog(event) == \E n \in 1..Len(log) : log[n] = event

Exited == pc = "exited"
ExitedNonZero == Exited /\ exit_code \notin {Running, 0}

RequiredMissing == \E k \in RequiredKeys : environ[k] \in {PyNone, ""}

\* C1: if one of HUGGING_FACE_TOKEN, HF_MODEL_REPO, HF_MODEL_FILE is unset
\* or empty, then once initialization has run the process has exited with a
\* non-zero status, and no setup command was executed, no server was
\* launched, no health request was issued and ready is false.
C1_MissingConfigExitsFirst ==
    (RequiredMissing /\ pc # "loaded") =>
        /\ ExitedNonZero
        /\ \A n \in 1..Len(SetupCommands) : ~InLog(SetupCommands[n])
        /\ ~InLog("popen")
        /\ llama_server_process = PyNone
        /\ ~InLog("health")
        /\ health_calls = 0
        /\ last_health.outcome = "none"
        /\ ~is_server_ready

C1_Witness ==
    /\ Exited
    /\ environ["HUGGING_FACE_TOKEN"] = "hf_secret"
    /\ environ["HF_MODEL_REPO"] = "org/repo"
    /\ environ["HF_MODEL_FILE"] = ""

\* C2: when a health poll returns 200 after K polls that did not, ready is
\* true from that poll on (the poll K+1 of the loop), no health request is
\* issued after it, and the process neither exits nor kills the server.
C2_ReadyAtFirst200 ==
    /\ (pc = "polled" /\ last_health.outcome = "200") =>
          (health_calls = misses + 1 /\ i = misses)
    /\ last_health.outcome = "200" =>
          /\ is_server_ready
          /\ pc \in {"polled", "returned"}
          /\ ~polled_after_ready
          /\ exit_code = Running
          /\ ~InLog("kill")
          /\ ~InLog("exit")

C2_Witness ==
    /\ pc = "polled"
    /\ last_health.outcome = "200"
    /\ misses = 7
    /\ health_calls = 8

\* C3: an exit after the server was launched happens only when the polling
\* loop has made exactly its bound of polls (600 in llama_initializer, 300
\* in rp_handler) without a 200; then ready is false, the status is
\* non-zero, and the kill was sent right before the exit.  While polls
\* remain the process does not give up.
C3_BoundThenKillThenExit ==
    LET bound == IF variant = "llama_initializer" THEN 600 ELSE 300 IN
    /\ (Exited /\ InLog("popen")) =>
          /\ health_calls = bound
          /\ misses = bound
          /\ ~is_server_ready
          /\ exit_code \notin {Running, 0}
          /\ Len(log) >= 2
          /\ log[Len(log) - 1] = "kill"
          /\ log[Len(log)] = "exit"
    /\ (pc = "poll") => (health_calls < bound /\ exit_code = Running)
    /\ (pc = "polled" /\ ~is_server_ready) => health_calls = bound

C3_Witness ==
    /\ Exited
    /\ variant = "llama_initializer"
    /\ health_calls = 600
    /\ InLog("kill")

Called == calls > 0

NotReadyText == "Llama.cpp server is not ready. Initialization failed."

\* C4: a completion call made while ready is false returns a failure whose
\* message says that the server is not ready, and issues no HTTP request.
C4_NotReadyFailsWithoutRequest ==
    (Called /\ ~call.ready) =>
        /\ call.outcome = "return"
        /\ DOMAIN call.ret = {"error"}
        /\ call.ret.error = <<NotReadyText>>
        /\ Len(call.requests) = 0

C4_Witness ==
    /\ Called
    /\ ~call.ready
    /\ call.job.prompt = "hi"
    /\ call.outcome = "return"

PromptMissing(job) == job.prompt \in {Absent, PyNone, ""}

NoPromptTexts == {"No prompt provided.", "No 'prompt' found in job input."}

Posted == Called /\ Len(call.requests) > 0

TokenConfigured == environ["API_TOKEN"] \notin {PyNone, ""}

\* C6: the completion POST carries an Authorization header exactly when an
\* API token is configured, and its value is "Bearer " followed by the
\* token that was written as api_key to the server config and attached to
\* the health polls.
C6_Original ==
    Posted =>
        LET headers == call.requests[1].headers IN
        /\ ("Authorization" \in DOMAIN headers) <=> TokenConfigured
        /\ ("Authorization" \in DOMAIN headers) =>
              /\ "api_key" \in DOMAIN config_file
              /\ headers.Authorization = <<"Bearer ", config_file.api_key>>
              /\ "Authorization" \in DOMAIN last_health.headers
              /\ headers.Authorization = last_health.headers.Authorization

\* C7: every completion call returns a result value; none raises.
C7_Original == Called => call.outcome = "return"

ResponseArrived == Posted /\ call.upstream.kind = "response"

Success(status) == 200 <= status /\ status < 300

\* the bodies that are well-formed JSON without the expected shape
ShapelessBodies == {BodyNull, BodyEmptyList, BodyList, BodyString,
                    BodyEmptyObject, BodyDetail, BodyNoChoice, BodyNoMessage,
                    BodyNoContent}

\* C8: a successful status with a well-formed JSON body that lacks the
\* expected shape gives a failure that says the response format is
\* unexpected and includes the serialized body.
C8_Original ==
    (ResponseArrived /\ Success(call.upstream.status)
        /\ call.upstream.text \in ShapelessBodies) =>
        /\ call.outcome = "return"
        /\ DOMAIN call.ret = {"error"}
        /\ call.ret.error[1] = "Unexpected response format from LLM server: "
        /\ call.ret.error[2] = Dumps(Loads(call.upstream.text).v)

Decodes(text) == text \notin {BodyNotJson, BodyDeep}

\* the result for an error status: details when the body decodes, otherwise
\* the body text
ErrorStatusResult ==
    /\ call.outcome = "return"
    /\ "error" \in DOMAIN call.ret
    /\ Decodes(call.upstream.text) =>
          /\ DOMAIN call.ret = {"error", "details"}
          /\ call.ret.details = Loads(call.upstream.text).v
    /\ ~Decodes(call.upstream.text) =>
          /\ DOMAIN call.ret = {"error", "response_text"}
          /\ call.ret.response_text = call.upstream.text

\* C9: every status outside 2xx gives a failure, with the decoded body as
\* details (and no response_text) when the body is JSON, with the body text
\* as response_text (and no details) when it is not.
C9_Original ==
    (ResponseArrived /\ ~Success(call.upstream.status)) => ErrorStatusResult

\* C10: ready, a non-empty prompt and a 200 whose body has a non-empty
\* choices list with message content c in its first element: the call
\* returns exactly the success result with result = c.
C10_SuccessReturnsFirstContent ==
    (ResponseArrived /\ call.ready /\ call.job.prompt = "hi"
        /\ call.upstream.status = 200) =>
        /\ call.upstream.text = BodyHello =>
              (call.outcome = "return"
                 /\ call.ret = [result |-> JStr("hello")])
        /\ call.upstream.text = BodyTwo =>
              (call.outcome = "return"
                 /\ call.ret = [result |-> JStr("first")])

C10_Witness ==
    /\ ResponseArrived
    /\ call.upstream.status = 200
    /\ call.upstream.text = BodyTwo
    /\ call.outcome = "return"
    /\ DOMAIN call.ret = {"result"}

Returned == Called /\ call.outcome = "return"

\* C11: a value returned by a completion call has either the result field
\* or the error field, never both and never neither; details and
\* response_text come only with error, and never both together.
C11_ExactlyOneVariant ==
    Returned =>
        LET keys == DOMAIN call.ret IN
        /\ keys \subseteq {"result", "error", "details", "response_text"}
        /\ ("result" \in keys) # ("error" \in keys)
        /\ "details" \in keys => "error" \in keys
        /\ "response_text" \in keys => "error" \in keys
        /\ ~("details" \in keys /\ "response_text" \in keys)

C11_Witness ==
    /\ Returned
    /\ call.upstream.status = 500
    /\ call.upstream.text = BodyDetail
    /\ DOMAIN call.ret = {"error", "details"}

\* C12: over any sequence of initializer runs and completion calls, ready
\* never goes back to false, it becomes true only on a health poll that
\* returned 200, and a run whose startup fails ends with the process
\* terminated: a run that returns normally had a poll answered with 200.
C12_Original ==
    /\ [][/\ is_server_ready => is_server_ready'
          /\ (~is_server_ready /\ is_server_ready') =>
                (pc = "poll" /\ last_health'.outcome = "200")]_vars
    /\ [](pc = "returned" => last_health.outcome = "200")

\* C13: a completion call leaves ready, the base URL, the model
\* identifier, the API token and the subprocess handle as they were, on
\* every path, and issues at most one outbound request.
C13_CompletionFrame ==
    [][calls' # calls =>
          /\ is_server_ready' = is_server_ready
          /\ server_url' = server_url
          /\ hf_model_file_name' = hf_model_file_name
          /\ api_token' = api_token
          /\ llama_server_process' = llama_server_process
          /\ Len(call'.requests) <= 1]_vars

C13_Witness ==
    /\ Posted
    /\ call.upstream.kind = "transport"
    /\ call.outcome = "return"
    /\ is_server_ready
    /\ calls = 2

IsSetupCommand(event) ==
    \E m \in 1..Len(SetupCommands) : SetupCommands[m] = event

\* C14: the setup commands run in their order (server package, hub
\* package, login, download); when one fails none of the later ones runs,
\* no config file is written, no server is launched, no health request is
\* issued, and the process exits with a non-zero status, ready false.
C14_SetupFailureStops ==
    /\ \A n \in 1..Len(log) :
          IsSetupCommand(log[n]) =>
              (n <= Len(SetupCommands) /\ log[n] = SetupCommands[n])
    /\ InLog("setup_failed") =>
          /\ \E k \in 1..Len(SetupCommands) :
                /\ Len(log) = k + 2
                /\ \A n \in 1..k : log[n] = SetupCommands[n]
                /\ log[k + 1] = "setup_failed"
                /\ log[k + 2] = "exit"
          /\ config_file = EmptyDict
          /\ ~InLog("write_config")
          /\ ~InLog("popen")
          /\ llama_server_process = PyNone
          /\ ~InLog("health")
          /\ health_calls = 0
          /\ ExitedNonZero
          /\ ~is_server_ready

C14_Witness ==
    /\ Exited
    /\ log = <<SetupCommands[1], SetupCommands[2], "setup_failed", "exit">>

\* the bound of the polling loop of the running variant
LoopBound == IF variant = "llama_initializer" THEN 600 ELSE 300

\* C15: a poll that ends in a refused connection, another exception or a
\* status other than 200 does not end the process, does not kill the
\* server and does not set ready, and while attempts remain the loop goes
\* on polling; the loop is left only on a 200 or when the bound is reached.
C15_MissIsNotFatal ==
    /\ [][(health_calls' = health_calls + 1
             /\ last_health'.outcome # "200") =>
            /\ last_health'.outcome \in {"503", "ConnectionError",
                                         "Exception"}
            /\ pc' # "exited"
            /\ exit_code' = Running
            /\ \A n \in 1..Len(log') : log'[n] \notin {"kill", "exit"}
            /\ is_server_ready' = is_server_ready
            /\ health_calls' < LoopBound => pc' = "poll"]_vars
    /\ [](pc = "polled" =>
            (last_health.outcome = "200" \/ health_calls = LoopBound))

C15_Witness ==
    /\ pc = "poll"
    /\ last_health.outcome = "Exception"
    /\ misses = 5
    /\ ~is_server_ready
    /\ exit_code = Running

\* C16: counted in whole seconds from the first poll, the polling of
\* llama_initializer, while it goes on and when it has given up, has
\* lasted no more than 600 seconds.
C16_Original ==
    (variant = "llama_initializer" /\ pc \in {"poll", "polled", "exited"})
        => elapsed <= 600

\* C17: every run of the initialization, a second one after a successful
\* first one included, makes no more polls than the bound and comes to an
\* end, either returning with ready = true or exiting with a non-zero
\* status; it never returns with ready = false.
C17_RunsTerminate ==
    /\ [](health_calls <= LoopBound)
    /\ [](pc = "returned" => (is_server_ready /\ exit_code = Running))
    /\ [](pc = "exited" => exit_code \notin {Running, 0})
    /\ (pc \notin {"returned", "exited"}) ~> (pc \in {"returned", "exited"})

\* a second run that polled to the bound without a 200 and has returned
C17_Witness ==
    /\ pc = "returned"
    /\ is_server_ready
    /\ last_health.outcome = "503"

\* the places of an event in the record of the bring-up
At(event) == {n \in 1..Len(log) : log[n] = event}

\* C18: a completion POST is only issued after a health poll has answered
\* 200; the config document is written before the server is launched, the
\* server is launched at most once and before the first health poll; and
\* handler of rp_handler is never invoked while ready is false.
C18_BringUpBeforeRequests ==
    /\ Posted => last_health.outcome = "200"
    /\ Cardinality(At("popen")) <= 1
    /\ \A p \in At("popen") : \E w \in At("write_config") : w < p
    /\ \A h \in At("health") : \E p \in At("popen") : p < h
    /\ \A w \in At("write_config") : \A p \in At("popen") : w < p
    /\ \A p \in At("popen") : \A h \in At("health") : p < h
    /\ health_calls > 0 => InLog("health")
    /\ (Called /\ call.fn = "handler") => call.ready

C18_Witness ==
    /\ variant = "rp_handler"
    /\ Posted
    /\ call.fn = "handler"
    /\ call.ready
    /\ At("write_config") # {}
    /\ At("popen") # {}
    /\ At("health") # {}

\* a key of a returned dict is in both results or in neither, with one value
SameField(a, b, key) ==
    /\ (key \in DOMAIN a) = (key \in DOMAIN b)
    /\ (key \in DOMAIN a /\ key \in DOMAIN b) => a[key] = b[key]

\* C19: in the same runner state, for the same prompt, max_tokens and
\* temperature and the same upstream behaviour, handler and
\* send_completion_request issue the same requests (or none) and end the
\* same way: both return or both raise, both with an error or both with a
\* result, and with the same result, details and response_text.  The two
\* are compared on the arguments and the upstream of the call on record,
\* as long as ready is what it was at that call.
C19_Original ==
    (Called /\ call.job \in ClientJobs /\ call.ready = is_server_ready) =>
        LET h == handler(call.job, call.upstream)
            c == send_completion_request(call.job, call.upstream)
        IN /\ h.requests = c.requests
           /\ h.outcome = c.outcome
           /\ h.exc = c.exc
           /\ ("error" \in DOMAIN h.ret) = ("error" \in DOMAIN c.ret)
           /\ SameField(h.ret, c.ret, "result")
           /\ SameField(h.ret, c.ret, "details")
           /\ SameField(h.ret, c.ret, "response_text")

=============================================================================
